---- MODULE Spec2Model ----
(***************************************************************************)
(* I/O control blocks (IOCB), the priority queue (IOQueue), the            *)
(* serializing controller (IOQController), and the per-address sieve       *)
(* (SieveQueue / SieveClientController) of bacpypes/iocb.py.               *)
(*                                                                         *)
(* Every method of the source is an operator from program state to program *)
(* state (a record with one field per variable); an action applies one     *)
(* public operation to the current state and commits the result.  An       *)
(* exception is the field "raised": an operator that raises returns the    *)
(* state as it was when the exception left it.                             *)
(***************************************************************************)
EXTENDS Integers, Sequences, FiniteSets, TLC

\* ------------------------------------------------------------------ bounds
\* blocks built under each specification
MaxBlocks == 3
MaxIOCBs == 1
MaxSieveIOCBs == 3
MaxOrderIOCBs == 4
MaxRaceIOCBs == 2
MaxGroupIOCBs == 3
MaxChainIOCBs == 3
MaxPriority == 2
MaxCallbacks == 2
\* invocations counted per callback
MaxCalls == MaxCallbacks
MaxCtrl == 3
\* threads that each build one IOCB
MaxBuilders == 3
\* blocks submitted to the IOQController whose active slot is watched
MaxSlotIOCBs == 3
\* blocks submitted under the fair reactor
MaxFairIOCBs == 2

\* --------------------------------------------------------- program constants
IDLE == 0
PENDING == 1
ACTIVE == 2
COMPLETED == 3
ABORTED == 4

CTRL_IDLE == 0
CTRL_ACTIVE == 1
CTRL_WAITING == 1

\* None, as the value of a field that refers to a block or to a controller
NoRef == 0

MaxIdent == IF MaxOrderIOCBs > MaxBlocks THEN MaxOrderIOCBs ELSE MaxBlocks
Blocks == 1..MaxIdent
Ctrls == 1..MaxCtrl
\* the two controllers that are not IOQControllers: a plain IOController and
\* the SieveClientController
PlainCtl == MaxCtrl + 1
SieveCtl == MaxCtrl + 2
Priorities == 1..MaxPriority
Msgs == {"r1", "r2"}
Errs == {"e1"}
\* the errors given to IOQueue.abort
QueueErrs == {"e2"}
Addrs == {"A", "B"}
WaitTimes == {0, 1}
\* the threads that call SieveClientController.request_io
Threads == {1, 2}
\* the threads that call IOCB()
Builders == 1..MaxBuilders
\* IOChain, and a subclass of it whose decode raises
ChainClasses == {"IOChain", "IOChainDecodeRaises"}

VARIABLES
    identNext,      \* _identNext: the next ioID; blocks 1..identNext-1 exist
    ioState, ioResponse, ioError, ioController, ioComplete, ioCallback,
    ioQueue, ioPriority, ioTimeout,         \* the fields of each IOCB
    pduDestination, \* args[0].pduDestination of each IOCB
    cls,            \* the class of each block: IOCB, IOGroup, IOChain, or an
                    \* IOChain subclass whose decode raises
    ioMembers,      \* of each IOGroup: its members in the order they were added
    ioChain,        \* of each IOChain: the upstream block it is chained from
    calls,          \* calls[b][k]: how often ioCallback[b][k] was invoked
    ctlNext,        \* IOQController instances 1..ctlNext-1 exist
    state, active_iocb, queue, notempty, wait_time, address,
                    \* the fields of each IOQController and of its IOQueue
    deferredFns,    \* per controller: deferred(_trigger) calls not yet run
    waitTasks,      \* per controller: installed _wait_trigger tasks
    getWaiters,     \* per controller: threads blocked in ioQueue.get()
    queues,         \* SieveClientController.queues: address -> SieveQueue
    frames,         \* per thread: where it is in process_io or in
                    \* IOCB.__init__, the locals iocb and queue (in __init__:
                    \* ioID) of that call, and the threads whose IOCB.__init__
                    \* had returned when this one was called
    raised,         \* the exception that left the last operation, or "None"
    sent,           \* the blocks in the order they were handed to request_fn
    last            \* the log of the last operation: its name, its block, the
                    \* block's state before it, its address

vars == <<identNext, ioState, ioResponse, ioError, ioController, ioComplete,
          ioCallback, ioQueue, ioPriority, ioTimeout, pduDestination, cls,
          ioMembers, ioChain, calls,
          ctlNext, state, active_iocb, queue, notempty, wait_time, address,
          deferredFns, waitTasks, getWaiters, queues, frames, raised, sent,
          last>>

\* the program state as one record; fired: the callbacks the operation has
\* invoked so far, in order
Cur ==
    [identNext |-> identNext, ioState |-> ioState, ioResponse |-> ioResponse,
     ioError |-> ioError, ioController |-> ioController,
     ioComplete |-> ioComplete, ioCallback |-> ioCallback, ioQueue |-> ioQueue,
     ioPriority |-> ioPriority, ioTimeout |-> ioTimeout,
     pduDestination |-> pduDestination, cls |-> cls, ioMembers |-> ioMembers,
     ioChain |-> ioChain, calls |-> calls, ctlNext |-> ctlNext,
     state |-> state, active_iocb |-> active_iocb, queue |-> queue,
     notempty |-> notempty, wait_time |-> wait_time, address |-> address,
     deferredFns |-> deferredFns, waitTasks |-> waitTasks,
     getWaiters |-> getWaiters, queues |-> queues, frames |-> frames,
     raised |-> "None", sent |-> sent, fired |-> <<>>]

Commit(s, l) ==
    /\ identNext' = s.identNext
    /\ ioState' = s.ioState
    /\ ioResponse' = s.ioResponse
    /\ ioError' = s.ioError
    /\ ioController' = s.ioController
    /\ ioComplete' = s.ioComplete
    /\ ioCallback' = s.ioCallback
    /\ ioQueue' = s.ioQueue
    /\ ioPriority' = s.ioPriority
    /\ ioTimeout' = s.ioTimeout
    /\ pduDestination' = s.pduDestination
    /\ cls' = s.cls
    /\ ioMembers' = s.ioMembers
    /\ ioChain' = s.ioChain
    /\ calls' = s.calls
    /\ ctlNext' = s.ctlNext
    /\ state' = s.state
    /\ active_iocb' = s.active_iocb
    /\ queue' = s.queue
    /\ notempty' = s.notempty
    /\ wait_time' = s.wait_time
    /\ address' = s.address
    /\ deferredFns' = s.deferredFns
    /\ waitTasks' = s.waitTasks
    /\ getWaiters' = s.getWaiters
    /\ queues' = s.queues
    /\ frames' = s.frames
    /\ raised' = s.raised
    /\ sent' = s.sent
    /\ last' = IF l.trace THEN [l EXCEPT !.fired = s.fired] ELSE l

Raise(s, exc) == [s EXCEPT !.raised = exc]
Caught(s) == [s EXCEPT !.raised = "None"]
Terminal == {COMPLETED, ABORTED}
Made(b) == b < identNext

\* ------------------------------------------------------------------- IOCB

\* IOCB.__init__ with _priority = p and a request addressed to a
IOCB_init(s, p, a) ==
    LET b == s.identNext
    IN  [s EXCEPT !.identNext = b + 1,
                  !.ioState[b] = IDLE,
                  !.ioResponse[b] = "None",
                  !.ioError[b] = "None",
                  !.ioController[b] = NoRef,
                  !.ioComplete[b] = FALSE,
                  !.ioCallback[b] = <<>>,
                  !.ioQueue[b] = NoRef,
                  !.ioPriority[b] = p,
                  !.ioTimeout[b] = "None",
                  !.pduDestination[b] = a,
                  !.cls[b] = "IOCB"]

\* the timer service: a task of a block is installed or suspended
FunctionTask_suspend_task(s, b) == [s EXCEPT !.ioTimeout[b] = "suspended"]
FunctionTask_install_task(s, b) == [s EXCEPT !.ioTimeout[b] = "installed"]

\* an IOChain as the ioController of the block it is chained from
ChainCtl(ch) == SieveCtl + ch
ChainCtls == {ChainCtl(ch) : ch \in Blocks}
ChainOf(x) == x - SieveCtl

RECURSIVE trigger(_, _)

\* IOGroup.group_callback of group g
IOGroup_group_callback(s, g) ==
    IF \A i \in 1..Len(s.ioMembers[g]) : s.ioComplete[s.ioMembers[g][i]]
    THEN trigger([s EXCEPT !.ioState[g] = COMPLETED], g)
    ELSE s

\* IOChainMixIn.decode of chain block ch, or the decode of a subclass that
\* raises
IOChainMixIn_decode(s, ch) ==
    LET iocb == s.ioChain[ch]
    IN  IF s.cls[ch] = "IOChainDecodeRaises" THEN Raise(s, "DecodeError")
        ELSE IF s.ioState[ch] = COMPLETED
        THEN [s EXCEPT !.ioState[iocb] = COMPLETED, !.ioResponse[iocb] = s.ioResponse[ch]]
        ELSE IF s.ioState[ch] = ABORTED
        THEN [s EXCEPT !.ioState[iocb] = ABORTED, !.ioError[iocb] = s.ioError[ch]]
        ELSE Raise(s, "RuntimeError")

\* a mutant: chain_callback that lets the exception of decode pass
IOChainMixIn_chain_callback_passing(s, ch) ==
    IF s.ioChain[ch] = NoRef THEN s
    ELSE LET iocb == s.ioChain[ch]
             s1 == IOChainMixIn_decode(s, ch)
         IN  IF s1.raised # "None" THEN s1
             ELSE trigger([s1 EXCEPT !.ioChain[ch] = NoRef, !.ioController[iocb] = NoRef], iocb)

\* IOChainMixIn.chain_callback of chain block ch
IOChainMixIn_chain_callback(s, ch) ==
    IF s.ioChain[ch] = NoRef THEN s
    ELSE LET iocb == s.ioChain[ch]
             s1 == IOChainMixIn_decode(s, ch)
             s2 == IF s1.raised # "None"
                   THEN [Caught(s1) EXCEPT !.ioState[iocb] = ABORTED,
                                           !.ioError[iocb] = s1.raised]
                   ELSE s1
         IN  trigger([s2 EXCEPT !.ioChain[ch] = NoRef, !.ioController[iocb] = NoRef], iocb)

\* one callback of a block: a function of the application, the
\* group_callback of a group, or the chain_callback of a chain
Callback(s, cb) ==
    IF cb.kind = "group" THEN IOGroup_group_callback(s, cb.id)
    ELSE IF cb.kind = "chain" THEN IOChainMixIn_chain_callback(s, cb.id)
    ELSE s

\* the loop over ioCallback in trigger, from callback k on; an exception
\* that leaves a callback leaves the loop
RECURSIVE RunCallbacks(_, _, _)
RunCallbacks(s, b, k) ==
    IF k > Len(s.ioCallback[b]) THEN s
    ELSE LET fn == [blk |-> b, k |-> k, set |-> s.ioComplete[b]]
             s1 == Callback([s EXCEPT !.calls[b][k] = @ + 1, !.fired = Append(@, fn)],
                            s.ioCallback[b][k])
         IN  IF s1.raised # "None" THEN s1 ELSE RunCallbacks(s1, b, k + 1)

\* a mutant: trigger that sets the completion event after the callbacks
trigger_signal_last(s, b) ==
    IF s.ioQueue[b] # NoRef
    THEN Raise(s, "AttributeError")
    ELSE LET s1 == IF s.ioTimeout[b] # "None" THEN FunctionTask_suspend_task(s, b) ELSE s
             s2 == RunCallbacks(s1, b, 1)
         IN  IF s2.raised # "None" THEN s2 ELSE [s2 EXCEPT !.ioComplete[b] = TRUE]

\* IOCB.trigger.  A queued block: IOQueue defines remove, not Remove, so the
\* call raises AttributeError before the completion event is set.
trigger(s, b) ==
    IF s.ioQueue[b] # NoRef
    THEN Raise(s, "AttributeError")
    ELSE LET s1 == IF s.ioTimeout[b] # "None" THEN FunctionTask_suspend_task(s, b) ELSE s
         IN  RunCallbacks([s1 EXCEPT !.ioComplete[b] = TRUE], b, 1)

\* IOController.complete_io
IOController_complete_io(s, b, msg) ==
    IF s.ioState[b] = COMPLETED THEN s
    ELSE IF s.ioState[b] = ABORTED THEN s
    ELSE trigger([s EXCEPT !.ioState[b] = COMPLETED, !.ioResponse[b] = msg], b)

\* a mutant: abort_io without the terminal-state checks
IOController_abort_io_unguarded(s, b, err) ==
    trigger([s EXCEPT !.ioState[b] = ABORTED, !.ioError[b] = err], b)

\* IOController.abort_io
IOController_abort_io(s, b, err) ==
    IF s.ioState[b] = COMPLETED THEN s
    ELSE IF s.ioState[b] = ABORTED THEN s
    ELSE trigger([s EXCEPT !.ioState[b] = ABORTED, !.ioError[b] = err], b)

\* IOController.active_io
IOController_active_io(s, b) ==
    IF s.ioState[b] # IDLE /\ s.ioState[b] # PENDING
    THEN Raise(s, "RuntimeError")
    ELSE [s EXCEPT !.ioState[b] = ACTIVE]

\* IOController.request_io of the base class, whose process_io raises
\* NotImplementedError
IOController_request_io(s, b) ==
    LET s1 == [s EXCEPT !.ioController[b] = PlainCtl, !.ioState[b] = PENDING]
    IN  IOController_abort_io(s1, b, "NotImplementedError")

\* ------------------------------------------------------------------ IOQueue

\* bisect.bisect_left(q, (x,)) on a list of (priority, iocb) items: an item is
\* below the 1-tuple (x,) exactly when its priority is below x
RECURSIVE bisect_search(_, _, _, _)
bisect_search(q, x, lo, hi) ==
    IF lo < hi
    THEN LET mid == (lo + hi) \div 2
         IN  IF q[mid + 1][1] < x
             THEN bisect_search(q, x, mid + 1, hi)
             ELSE bisect_search(q, x, lo, mid)
    ELSE lo

bisect_left(q, x) == bisect_search(q, x, 0, Len(q))

InsertAt(q, i, item) == SubSeq(q, 1, i) \o <<item>> \o SubSeq(q, i + 1, Len(q))

\* a mutant: put that inserts before the blocks of the same priority
IOQueue_put_front(s, c, b) ==
    IF s.ioState[b] # PENDING
    THEN Raise(s, "RuntimeError")
    ELSE LET priority == s.ioPriority[b]
             i == bisect_left(s.queue[c], priority)
         IN  [s EXCEPT !.queue[c] = InsertAt(s.queue[c], i, <<priority, b>>),
                       !.ioQueue[b] = c,
                       !.notempty[c] = TRUE]

\* IOQueue.put on the queue of controller c
IOQueue_put(s, c, b) ==
    IF s.ioState[b] # PENDING
    THEN Raise(s, "RuntimeError")
    ELSE LET priority == s.ioPriority[b]
             i == bisect_left(s.queue[c], priority + 1)
         IN  [s EXCEPT !.queue[c] = InsertAt(s.queue[c], i, <<priority, b>>),
                       !.ioQueue[b] = c,
                       !.notempty[c] = TRUE]

\* the block IOQueue.get returns when the not-empty event is set
IOQueue_head(s, c) == s.queue[c][1][2]

\* IOQueue.get on the queue of controller c, past the wait on notempty
IOQueue_get(s, c) ==
    LET b == IOQueue_head(s, c)
        rest == Tail(s.queue[c])
    IN  [s EXCEPT !.queue[c] = rest,
                  !.ioQueue[b] = NoRef,
                  !.notempty[c] = IF rest = <<>> THEN FALSE ELSE @]

\* IOQueue.remove on the queue of controller c, from entry i on
RECURSIVE IOQueue_remove_from(_, _, _, _)
IOQueue_remove_from(s, c, b, i) ==
    IF i > Len(s.queue[c]) THEN s
    ELSE IF s.queue[c][i][2] = b
    THEN LET rest == SubSeq(s.queue[c], 1, i - 1) \o SubSeq(s.queue[c], i + 1, Len(s.queue[c]))
         IN  [s EXCEPT !.queue[c] = rest,
                       !.notempty[c] = IF rest = <<>> THEN FALSE ELSE @]
    ELSE IOQueue_remove_from(s, c, b, i + 1)

\* IOQueue.remove
IOQueue_remove(s, c, b) == IOQueue_remove_from(s, c, b, 1)

\* ------------------------------------------------------------ IOQController

\* the blocks still waiting in the queue of controller c
Waiting(s, c) ==
    {s.queue[c][i][2] : i \in {j \in 1..Len(s.queue[c]) : s.ioState[s.queue[c][j][2]] = PENDING}}

\* IOQController.active_io
IOQController_active_io(s, c, b) ==
    LET s1 == IOController_active_io(s, b)
    IN  IF s1.raised # "None" THEN s1
        ELSE [s1 EXCEPT !.state[c] = CTRL_ACTIVE, !.active_iocb[c] = b]

\* SieveQueue.process_io; fail: request_fn raises
SieveQueue_process_io(s, c, b, fail) ==
    LET s1 == IOQController_active_io(s, c, b)
    IN  IF s1.raised # "None" THEN s1
        ELSE LET s2 == [s1 EXCEPT !.sent = Append(@, b)]
             IN  IF fail THEN Raise(s2, "TransportError") ELSE s2

\* a mutant: abort_io that frees the slot and defers no _trigger
IOQController_abort_io_quiet(s, c, b, err) ==
    LET s1 == IOController_abort_io(s, b, err)
    IN  IF s1.raised # "None" THEN s1
        ELSE IF b # s1.active_iocb[c] THEN s1
        ELSE [s1 EXCEPT !.active_iocb[c] = NoRef, !.state[c] = CTRL_IDLE]

\* IOQController.abort_io
IOQController_abort_io(s, c, b, err) ==
    LET s1 == IOController_abort_io(s, b, err)
    IN  IF s1.raised # "None" THEN s1
        ELSE IF b # s1.active_iocb[c] THEN s1
        ELSE [s1 EXCEPT !.active_iocb[c] = NoRef,
                        !.state[c] = CTRL_IDLE,
                        !.deferredFns[c] = @ + 1]

\* a mutant: complete_io that does not compare the block with active_iocb
IOQController_complete_io_unchecked(s, c, b, msg) ==
    LET s1 == IOController_complete_io(s, b, msg)
    IN  IF s1.raised # "None" THEN s1
        ELSE IF s1.wait_time[c] # 0
        THEN [s1 EXCEPT !.active_iocb[c] = NoRef,
                        !.state[c] = CTRL_WAITING,
                        !.waitTasks[c] = @ + 1]
        ELSE [s1 EXCEPT !.active_iocb[c] = NoRef,
                        !.state[c] = CTRL_IDLE,
                        !.deferredFns[c] = @ + 1]

\* a mutant: complete_io that hands the next queued block to process_io
\* itself
IOQController_complete_io_inline(s, c, b, msg) ==
    IF b # s.active_iocb[c]
    THEN Raise(s, "RuntimeError")
    ELSE LET s1 == IOController_complete_io(s, b, msg)
             s2 == [s1 EXCEPT !.active_iocb[c] = NoRef, !.state[c] = CTRL_IDLE]
         IN  IF s1.raised # "None" THEN s1
             ELSE IF s2.queue[c] = <<>> THEN s2
             ELSE SieveQueue_process_io(IOQueue_get(s2, c), c, IOQueue_head(s2, c), FALSE)

\* IOQController.complete_io
IOQController_complete_io(s, c, b, msg) ==
    IF b # s.active_iocb[c]
    THEN Raise(s, "RuntimeError")
    ELSE LET s1 == IOController_complete_io(s, b, msg)
         IN  IF s1.raised # "None" THEN s1
             ELSE IF s1.wait_time[c] # 0
             THEN [s1 EXCEPT !.active_iocb[c] = NoRef,
                             !.state[c] = CTRL_WAITING,
                             !.waitTasks[c] = @ + 1]
             ELSE [s1 EXCEPT !.active_iocb[c] = NoRef,
                             !.state[c] = CTRL_IDLE,
                             !.deferredFns[c] = @ + 1]

\* the try/except around process_io in request_io and _trigger
TryProcess(s, c, b, fail) ==
    LET s1 == SieveQueue_process_io(s, c, b, fail)
    IN  IF s1.raised # "None"
        THEN IOQController_abort_io(Caught(s1), c, b, s1.raised)
        ELSE s1

\* a mutant: request_io that never looks at the controller's state
IOQController_request_io_eager(s, c, b, fail) ==
    LET s1 == [s EXCEPT !.ioController[b] = c]
    IN  TryProcess(s1, c, b, fail)

\* IOQController.request_io
IOQController_request_io(s, c, b, fail) ==
    LET s1 == [s EXCEPT !.ioController[b] = c]
    IN  IF s1.state[c] # CTRL_IDLE
        THEN IOQueue_put([s1 EXCEPT !.ioState[b] = PENDING], c, b)
        ELSE TryProcess(s1, c, b, fail)

\* IOQController._trigger
IOQController_trigger(s, c, fail) ==
    IF s.state[c] # CTRL_IDLE THEN s
    ELSE IF s.queue[c] = <<>> THEN s
    ELSE LET b == IOQueue_head(s, c)
             s1 == IOQueue_get(s, c)
             s2 == TryProcess(s1, c, b, fail)
         IN  IF s2.raised # "None" THEN s2
             ELSE IF s2.state[c] = CTRL_IDLE
             THEN [s2 EXCEPT !.deferredFns[c] = @ + 1]
             ELSE s2

\* IOQController._wait_trigger
IOQController_wait_trigger(s, c, fail) ==
    IF s.state[c] # CTRL_WAITING
    THEN Raise(s, "RuntimeError")
    ELSE IOQController_trigger([s EXCEPT !.state[c] = CTRL_IDLE], c, fail)

\* the loop of IOQController.abort while ioQueue.get() returns at once
RECURSIVE AbortLoop(_, _, _)
AbortLoop(s, c, err) ==
    IF ~s.notempty[c] THEN s
    ELSE LET b == IOQueue_head(s, c)
             s1 == IOQueue_get(s, c)
             s2 == trigger([s1 EXCEPT !.ioState[b] = ABORTED, !.ioError[b] = err], b)
         IN  IF s2.raised # "None" THEN s2 ELSE AbortLoop(s2, c, err)

\* IOQController.abort: on a controller that is not idle the loop ends in
\* ioQueue.get() with block=1 on the empty queue, where the caller stays
IOQController_abort(s, c, err) ==
    IF s.state[c] = CTRL_IDLE THEN s
    ELSE LET s1 == AbortLoop(s, c, err)
         IN  IF s1.raised # "None" THEN s1
             ELSE [s1 EXCEPT !.getWaiters[c] = @ + 1]

\* a caller of abort blocked in ioQueue.get() goes on when a put sets notempty
IOQController_abort_resume(s, c, err) == AbortLoop(s, c, err)

\* ------------------------------------------------------- IOCB, continued

\* a mutant: add_callback that runs trigger on every registration
IOCB_add_callback_always(s, b) ==
    trigger([s EXCEPT !.ioCallback[b] = Append(@, [kind |-> "fn", id |-> Len(@) + 1]),
                      !.calls[b] = Append(@, 0)], b)

\* IOCB.add_callback
IOCB_add_callback(s, b) ==
    LET s1 == [s EXCEPT !.ioCallback[b] = Append(@, [kind |-> "fn", id |-> Len(@) + 1]),
                        !.calls[b] = Append(@, 0)]
    IN  IF s1.ioComplete[b] THEN trigger(s1, b) ELSE s1

\* IOCB.add_callback of a given callback
IOCB_add_callback_of(s, b, cb) ==
    LET s1 == [s EXCEPT !.ioCallback[b] = Append(@, cb), !.calls[b] = Append(@, 0)]
    IN  IF s1.ioComplete[b] THEN trigger(s1, b) ELSE s1

\* IOCB.complete; an IOChain as controller has no complete_io
IOCB_complete(s, b, msg) ==
    IF s.ioController[b] \in Ctrls
    THEN IOQController_complete_io(s, s.ioController[b], b, msg)
    ELSE IF s.ioController[b] \in ChainCtls
    THEN Raise(s, "AttributeError")
    ELSE IF s.ioController[b] # NoRef
    THEN IOController_complete_io(s, b, msg)
    ELSE trigger([s EXCEPT !.ioState[b] = COMPLETED, !.ioResponse[b] = msg], b)

\* a mutant: abort of an unbound block without the ioState < COMPLETED check
IOCB_abort_unguarded(s, b, err) ==
    IF s.ioController[b] \in Ctrls
    THEN IOQController_abort_io(s, s.ioController[b], b, err)
    ELSE IF s.ioController[b] # NoRef
    THEN IOController_abort_io(s, b, err)
    ELSE trigger([s EXCEPT !.ioState[b] = ABORTED, !.ioError[b] = err], b)

\* iocb.abort(err) on a block of any class
RECURSIVE abort(_, _, _)

\* IOChainMixIn.abort_io of chain block ch, for the block iocb
IOChainMixIn_abort_io(s, ch, iocb, err) ==
    IF iocb # s.ioChain[ch]
    THEN Raise(s, "RuntimeError")
    ELSE abort(s, ch, err)

\* IOCB.abort
IOCB_abort(s, b, err) ==
    IF s.ioController[b] \in Ctrls
    THEN IOQController_abort_io(s, s.ioController[b], b, err)
    ELSE IF s.ioController[b] \in ChainCtls
    THEN IOChainMixIn_abort_io(s, ChainOf(s.ioController[b]), b, err)
    ELSE IF s.ioController[b] # NoRef
    THEN IOController_abort_io(s, b, err)
    ELSE IF s.ioState[b] < COMPLETED
    THEN trigger([s EXCEPT !.ioState[b] = ABORTED, !.ioError[b] = err], b)
    ELSE s

\* --------------------------------------------------------- IOChain, IOGroup

\* IOChain.__init__ on the upstream block chain (or None), of class c;
\* fail: encode raises
IOChain_init(s, chain, c, fail) ==
    LET b == s.identNext
        s1 == [IOCB_init(s, 0, "None") EXCEPT !.cls[b] = c, !.ioChain[b] = chain]
        s2 == IOCB_add_callback_of(s1, b, [kind |-> "chain", id |-> b])
    IN  IF chain = NoRef THEN s2
        ELSE LET s3 == [s2 EXCEPT !.ioController[chain] = ChainCtl(b),
                                  !.ioState[chain] = ACTIVE]
             IN  IF fail THEN abort(s3, chain, "EncodeError") ELSE s3

\* IOGroup.__init__
IOGroup_init(s) ==
    LET g == s.identNext
    IN  [IOCB_init(s, 0, "None") EXCEPT !.cls[g] = "IOGroup",
                                        !.ioMembers[g] = <<>>,
                                        !.ioState[g] = COMPLETED,
                                        !.ioComplete[g] = TRUE]

\* IOGroup.add
IOGroup_add(s, g, iocb) ==
    LET s1 == [s EXCEPT !.ioMembers[g] = Append(@, iocb),
                        !.ioState[g] = PENDING,
                        !.ioComplete[g] = FALSE]
    IN  IOCB_add_callback_of(s1, iocb, [kind |-> "group", id |-> g])

\* the loop of IOGroup.abort over ioMembers, from member i on
RECURSIVE AbortMembers(_, _, _, _)
AbortMembers(s, g, i, err) ==
    IF i > Len(s.ioMembers[g]) THEN s
    ELSE LET s1 == abort(s, s.ioMembers[g][i], err)
         IN  IF s1.raised # "None" THEN s1 ELSE AbortMembers(s1, g, i + 1, err)

\* IOGroup.abort
IOGroup_abort(s, g, err) ==
    LET s1 == [s EXCEPT !.ioState[g] = ABORTED, !.ioError[g] = err]
        s2 == AbortMembers(s1, g, 1, err)
    IN  IF s2.raised # "None" THEN s2 ELSE trigger(s2, g)

abort(s, b, err) ==
    IF s.cls[b] = "IOGroup" THEN IOGroup_abort(s, b, err) ELSE IOCB_abort(s, b, err)

\* the loop of IOQueue.abort over the queue of controller c, from entry i on;
\* an exception that is not a ValueError leaves abort
RECURSIVE IOQueue_abort_from(_, _, _, _)
IOQueue_abort_from(s, c, i, err) ==
    IF i > Len(s.queue[c]) THEN s
    ELSE LET iocb == s.queue[c][i][2]
             s1 == abort([s EXCEPT !.ioQueue[iocb] = NoRef], iocb, err)
         IN  IF s1.raised # "None" THEN s1 ELSE IOQueue_abort_from(s1, c, i + 1, err)

\* IOQueue.abort
IOQueue_abort(s, c, err) ==
    LET s1 == IOQueue_abort_from(s, c, 1, err)
    IN  IF s1.raised # "None" THEN s1
        ELSE [s1 EXCEPT !.queue[c] = <<>>, !.notempty[c] = FALSE]

\* IOCB.set_timeout.  The first call builds FunctionTask(self.Abort, err); an
\* IOCB has abort and no Abort, so the call raises AttributeError before
\* ioTimeout is assigned and before anything is installed.
IOCB_set_timeout(s, b) ==
    IF s.ioTimeout[b] # "None"
    THEN FunctionTask_install_task(FunctionTask_suspend_task(s, b), b)
    ELSE Raise(s, "AttributeError")

\* ------------------------------------------- SieveQueue, SieveClientController

\* SieveQueue.__init__ for address a: the next IOQController instance
SieveQueue_init(s, a) ==
    LET c == s.ctlNext
    IN  [s EXCEPT !.ctlNext = c + 1,
                  !.state[c] = CTRL_IDLE,
                  !.active_iocb[c] = NoRef,
                  !.queue[c] = <<>>,
                  !.notempty[c] = FALSE,
                  !.wait_time[c] = 0,
                  !.address[c] = a]

\* a mutant: process_io that keeps one queue for every destination
SieveClientController_process_io_shared(s, b, fail) ==
    LET s1 == IF s.queues["A"] = NoRef
              THEN [SieveQueue_init(s, "A") EXCEPT !.queues["A"] = s.ctlNext]
              ELSE s
    IN  IOQController_request_io(s1, s1.queues["A"], b, fail)

\* SieveClientController.process_io
SieveClientController_process_io(s, b, fail) ==
    LET destination_address == s.pduDestination[b]
        s1 == IF s.queues[destination_address] = NoRef
              THEN [SieveQueue_init(s, destination_address)
                        EXCEPT !.queues[destination_address] = s.ctlNext]
              ELSE s
    IN  IOQController_request_io(s1, s1.queues[destination_address], b, fail)

\* IOController.request_io as SieveClientController inherits it
SieveClientController_request_io(s, b, fail) ==
    LET s1 == [s EXCEPT !.ioController[b] = SieveCtl, !.ioState[b] = PENDING]
        s2 == SieveClientController_process_io(s1, b, fail)
    IN  IF s2.raised # "None"
        THEN IOController_abort_io(Caught(s2), b, s2.raised)
        ELSE s2

\* the end of confirmation: forget a controller with nothing queued or active
SieveClientController_forget(s, source_address, c) ==
    IF s.queue[c] = <<>> /\ s.active_iocb[c] = NoRef
    THEN [s EXCEPT !.queues[source_address] = NoRef]
    ELSE s

\* a mutant: confirmation that forgets the controller whatever is queued
SieveClientController_confirmation_forgetful(s, source_address, pdu) ==
    LET c == s.queues[source_address]
    IN  IF c = NoRef THEN s
        ELSE IF s.active_iocb[c] = NoRef THEN s
        ELSE LET s1 == IF pdu \in Msgs
                       THEN IOQController_complete_io(s, c, s.active_iocb[c], pdu)
                       ELSE IOQController_abort_io(s, c, s.active_iocb[c], pdu)
             IN  IF s1.raised # "None" THEN s1
                 ELSE [s1 EXCEPT !.queues[source_address] = NoRef]

\* a mutant: confirmation without the isinstance(pdu, Exception) branch
SieveClientController_confirmation_blind(s, source_address, pdu) ==
    LET c == s.queues[source_address]
    IN  IF c = NoRef THEN s
        ELSE IF s.active_iocb[c] = NoRef THEN s
        ELSE LET s1 == IOQController_complete_io(s, c, s.active_iocb[c], pdu)
             IN  IF s1.raised # "None" THEN s1
                 ELSE SieveClientController_forget(s1, source_address, c)

\* SieveClientController.confirmation of a pdu (a response, or an exception)
\* whose pduSource is source_address
SieveClientController_confirmation(s, source_address, pdu) ==
    LET c == s.queues[source_address]
    IN  IF c = NoRef THEN s
        ELSE IF s.active_iocb[c] = NoRef THEN s
        ELSE LET s1 == IF pdu \in Msgs
                       THEN IOQController_complete_io(s, c, s.active_iocb[c], pdu)
                       ELSE IOQController_abort_io(s, c, s.active_iocb[c], pdu)
             IN  IF s1.raised # "None" THEN s1
                 ELSE SieveClientController_forget(s1, source_address, c)

\* a thread that is not inside process_io
NoFrame == [pc |-> "out", iocb |-> NoRef, queue |-> NoRef, before |-> {}]

\* IOController.request_io up to the lookup in process_io, by thread t:
\* queue = self.queues.get(destination_address, None)
SieveClientController_process_io_get(s, t, b) ==
    LET s1 == [s EXCEPT !.ioController[b] = SieveCtl, !.ioState[b] = PENDING]
    IN  [s1 EXCEPT !.frames[t] =
            [NoFrame EXCEPT !.pc = "got", !.iocb = b,
                            !.queue = s1.queues[s1.pduDestination[b]]]]

\* if not queue: queue = SieveQueue(...); self.queues[destination_address] = queue
SieveClientController_process_io_new(s, t) ==
    LET f == s.frames[t]
        destination_address == s.pduDestination[f.iocb]
    IN  IF f.queue = NoRef
        THEN [SieveQueue_init(s, destination_address)
                 EXCEPT !.queues[destination_address] = s.ctlNext,
                        !.frames[t] = [f EXCEPT !.pc = "ready", !.queue = s.ctlNext]]
        ELSE [s EXCEPT !.frames[t].pc = "ready"]

\* queue.request_io(iocb), and the except branch of IOController.request_io
SieveClientController_process_io_request(s, t, fail) ==
    LET f == s.frames[t]
        s1 == IOQController_request_io([s EXCEPT !.frames[t] = NoFrame], f.queue, f.iocb, fail)
    IN  IF s1.raised # "None"
        THEN IOController_abort_io(Caught(s1), f.iocb, s1.raised)
        ELSE s1

\* ------------------------------------------------- IOCB.__init__ by threads

\* a mutant: a lock that is never held
identLock_free(s) == FALSE

\* _identLock is held by the thread that is between acquire and release
identLock_locked(s) ==
    \E u \in Builders : s.frames[u].pc \in {"locked", "read", "incr"}

\* thread t calls IOCB(): the threads whose call has returned are noted
IOCB_init_call(s, t) ==
    [s EXCEPT !.frames[t] =
        [NoFrame EXCEPT !.pc = "called",
                        !.before = {u \in Builders : s.frames[u].pc = "done"}]]

\* _identLock.acquire(), when the lock is free
IOCB_init_acquire(s, t) == [s EXCEPT !.frames[t].pc = "locked"]

\* ioID = _identNext
IOCB_init_read(s, t) == [s EXCEPT !.frames[t].pc = "read", !.frames[t].iocb = s.identNext]

\* _identNext += 1
IOCB_init_incr(s, t) == [s EXCEPT !.frames[t].pc = "incr", !.identNext = @ + 1]

\* _identLock.release()
IOCB_init_release(s, t) == [s EXCEPT !.frames[t].pc = "unlocked"]

\* the rest of __init__: self.ioID = ioID and the other fields
IOCB_init_fields(s, t) ==
    LET ioID == s.frames[t].iocb
        s1 == IOCB_init([s EXCEPT !.identNext = ioID], 0, "None")
    IN  [s1 EXCEPT !.identNext = s.identNext, !.frames[t].pc = "done"]

\* ------------------------------------------------------------------ actions

\* the log entry of an operation; a specification that starts with the log
\* off keeps it off, and one that starts with the trace on also logs the
\* callbacks the operation invoked
NoOp == [op |-> "None", blk |-> NoRef, pre |-> IDLE, addr |-> "None",
         trace |-> FALSE, fired |-> <<>>]
LogOff == [NoOp EXCEPT !.op = "off"]
TraceOn == [NoOp EXCEPT !.trace = TRUE]
Op(op, b, a) ==
    IF last = LogOff THEN last
    ELSE [op |-> op, blk |-> b, pre |-> IF b \in Blocks THEN ioState[b] ELSE IDLE, addr |-> a,
          trace |-> last.trace, fired |-> <<>>]

\* a block the application or the transport may still act on
Live(b) == Made(b) /\ ioState[b] \notin Terminal

CallsBelowCap(b) == \A k \in DOMAIN calls[b] : calls[b][k] < MaxCalls

Construct(n, p, a) ==
    /\ identNext <= n
    /\ Commit(IOCB_init(Cur, p, a), Op("init", identNext, a))

AddCallback(b) ==
    /\ Made(b)
    /\ Len(ioCallback[b]) < MaxCallbacks
    /\ Commit(IOCB_add_callback(Cur, b), Op("add_callback", b, "None"))

Complete(b, msg) ==
    /\ Made(b)
    /\ CallsBelowCap(b)
    /\ Commit(IOCB_complete(Cur, b, msg), Op("complete", b, "None"))

Abort(b, err) ==
    /\ Made(b)
    /\ Commit(abort(Cur, b, err), Op("abort", b, "None"))

SetTimeout(b) ==
    /\ Made(b)
    /\ Commit(IOCB_set_timeout(Cur, b), Op("set_timeout", b, "None"))

\* request_io is called on a block the application has just built
Fresh(b) == Made(b) /\ ioState[b] = IDLE /\ ioController[b] = NoRef

RequestIO(c, b, fail) ==
    /\ c < ctlNext
    /\ Fresh(b)
    /\ Commit(IOQController_request_io(Cur, c, b, fail), Op("request_io", b, "None"))

\* iocb = IOCB(request, _priority=p); controller.request_io(iocb)
Submit(n, c, p, fail) ==
    /\ c < ctlNext
    /\ identNext <= n
    /\ Commit(IOQController_request_io(IOCB_init(Cur, p, "None"), c, identNext, fail),
              Op("request_io", identNext, "None"))

PlainRequestIO(b) ==
    /\ Fresh(b)
    /\ Commit(IOController_request_io(Cur, b), Op("plain_request_io", b, "None"))

\* the reactor runs one deferred _trigger
Trigger(c, fail) ==
    /\ deferredFns[c] > 0
    /\ Commit(IOQController_trigger([Cur EXCEPT !.deferredFns[c] = @ - 1], c, fail),
              Op("_trigger", NoRef, "None"))

\* the timer runs one _wait_trigger task
WaitTrigger(c, fail) ==
    /\ waitTasks[c] > 0
    /\ Commit(IOQController_wait_trigger([Cur EXCEPT !.waitTasks[c] = @ - 1], c, fail),
              Op("_wait_trigger", NoRef, "None"))

QAbort(c, err) ==
    /\ c < ctlNext
    /\ getWaiters[c] = 0
    /\ Commit(IOQController_abort(Cur, c, err), Op("ctl_abort", NoRef, "None"))

QAbortResume(c, err) ==
    /\ getWaiters[c] > 0
    /\ notempty[c]
    /\ Commit(IOQController_abort_resume(Cur, c, err), Op("ctl_abort_resume", NoRef, "None"))

\* iocb = IOCB(pdu to a, _priority=p); sieve.request_io(iocb), while the
\* registry has a SieveQueue for a or there is an instance left to build
SieveSubmit(p, a, fail) ==
    /\ identNext <= MaxSieveIOCBs
    /\ queues[a] # NoRef \/ ctlNext <= MaxCtrl
    /\ Commit(SieveClientController_request_io(IOCB_init(Cur, p, a), identNext, fail),
              Op("sieve_request_io", identNext, a))

\* the transport delivers a response or an exception from address a
Confirmation(a, pdu) ==
    /\ Commit(SieveClientController_confirmation(Cur, a, pdu), Op("confirmation", NoRef, a))

\* thread t builds a block for address a and calls request_io, which runs
\* up to the registry lookup
ThreadGet(t, a) ==
    /\ frames[t] = NoFrame
    /\ identNext <= MaxRaceIOCBs
    /\ Commit(SieveClientController_process_io_get(IOCB_init(Cur, 0, a), t, identNext),
              Op("sieve_request_io", identNext, a))

\* thread t goes on to create and register the SieveQueue it did not find
ThreadNew(t) ==
    /\ frames[t].pc = "got"
    /\ frames[t].queue # NoRef \/ ctlNext <= MaxCtrl
    /\ Commit(SieveClientController_process_io_new(Cur, t), Op("process_io_new", frames[t].iocb, "None"))

\* thread t hands its block to the SieveQueue it holds
ThreadRequest(t, fail) ==
    /\ frames[t].pc = "ready"
    /\ Commit(SieveClientController_process_io_request(Cur, t, fail),
              Op("process_io_request", frames[t].iocb, "None"))

\* chain = IOChain(iocb) of class c on a block the application has just
\* built; fail: encode raises
ChainInit(n, iocb, c, fail) ==
    /\ identNext <= n
    /\ Fresh(iocb) /\ cls[iocb] = "IOCB"
    /\ Commit(IOChain_init(Cur, iocb, c, fail), Op("chain_init", identNext, "None"))

\* chain = IOChain(iocb); controller.request_io(chain)
ChainSubmit(n, iocb, c, fail, ctl, failio) ==
    /\ identNext <= n
    /\ ctl < ctlNext
    /\ Fresh(iocb) /\ cls[iocb] = "IOCB"
    /\ LET s1 == IOChain_init(Cur, iocb, c, fail)
       IN  Commit(IF s1.raised # "None" THEN s1
                  ELSE IOQController_request_io(s1, ctl, identNext, failio),
                  Op("chain_request_io", identNext, "None"))

\* group = IOGroup()
GroupInit ==
    /\ identNext = 1
    /\ Commit(IOGroup_init(Cur), Op("group_init", identNext, "None"))

\* group.add(iocb) of a block that is not a member yet
GroupAdd(g, b) ==
    /\ Made(g) /\ cls[g] = "IOGroup"
    /\ Made(b) /\ cls[b] = "IOCB"
    /\ \A i \in 1..Len(ioMembers[g]) : ioMembers[g][i] # b
    /\ Commit(IOGroup_add(Cur, g, b), Op("group_add", b, "None"))

\* ------------------------------------------------------ one IOQController

InitBlocks ==
    /\ identNext = 1
    /\ ioState = [b \in Blocks |-> IDLE]
    /\ ioResponse = [b \in Blocks |-> "None"]
    /\ ioError = [b \in Blocks |-> "None"]
    /\ ioController = [b \in Blocks |-> NoRef]
    /\ ioComplete = [b \in Blocks |-> FALSE]
    /\ ioCallback = [b \in Blocks |-> <<>>]
    /\ ioQueue = [b \in Blocks |-> NoRef]
    /\ ioPriority = [b \in Blocks |-> 0]
    /\ ioTimeout = [b \in Blocks |-> "None"]
    /\ pduDestination = [b \in Blocks |-> "None"]
    /\ cls = [b \in Blocks |-> "IOCB"]
    /\ ioMembers = [b \in Blocks |-> <<>>]
    /\ ioChain = [b \in Blocks |-> NoRef]
    /\ calls = [b \in Blocks |-> <<>>]
    /\ raised = "None"
    /\ sent = <<>>

InitCtrls ==
    /\ state = [c \in Ctrls |-> CTRL_IDLE]
    /\ active_iocb = [c \in Ctrls |-> NoRef]
    /\ queue = [c \in Ctrls |-> <<>>]
    /\ notempty = [c \in Ctrls |-> FALSE]
    /\ address = [c \in Ctrls |-> "None"]
    /\ deferredFns = [c \in Ctrls |-> 0]
    /\ waitTasks = [c \in Ctrls |-> 0]
    /\ getWaiters = [c \in Ctrls |-> 0]
    /\ queues = [a \in Addrs |-> NoRef]
    /\ frames = [t \in Threads \cup Builders |-> NoFrame]

\* one IOQController (a SieveQueue built by the application), wait_time 0 or not
InitOne ==
    /\ InitBlocks
    /\ InitCtrls
    /\ ctlNext = 2
    /\ \E w \in WaitTimes : wait_time = [c \in Ctrls |-> IF c = 1 THEN w ELSE 0]

Init == InitOne /\ last = NoOp

\* the life of single blocks: unbound, under a plain IOController, under the
\* IOQController
Next ==
    \/ Construct(MaxIOCBs, 0, "None")
    \/ \E b \in Blocks : AddCallback(b)
    \/ \E b \in Blocks, msg \in Msgs : Complete(b, msg)
    \/ \E b \in Blocks, err \in Errs : Abort(b, err)
    \/ \E b \in Blocks : SetTimeout(b)
    \/ \E b \in Blocks, fail \in BOOLEAN : RequestIO(1, b, fail)
    \/ \E b \in Blocks : PlainRequestIO(b)
    \/ \E fail \in BOOLEAN : Trigger(1, fail)
    \/ \E fail \in BOOLEAN : WaitTrigger(1, fail)

Spec == Init /\ [][Next]_vars

\* the IOQController and its queue under load
InitQ == InitOne /\ last = LogOff

NextQ ==
    \/ \E p \in Priorities, fail \in BOOLEAN : Submit(MaxBlocks, 1, p, fail)
    \/ \E b \in Blocks : Live(b) /\ Complete(b, "r1")
    \/ \E b \in Blocks, err \in Errs : Live(b) /\ Abort(b, err)
    \/ \E fail \in BOOLEAN : Trigger(1, fail)
    \/ \E fail \in BOOLEAN : WaitTrigger(1, fail)
    \/ \E err \in Errs : QAbort(1, err)
    \/ \E err \in Errs : QAbortResume(1, err)

SpecQ == InitQ /\ [][NextQ]_vars

\* the life of single blocks, with the callbacks of every operation logged
InitTrace == InitOne /\ last = TraceOn

SpecTrace == InitTrace /\ [][Next]_vars

\* a queue filled behind the first block and then drained: requests arrive
\* only while the first block is the active one, and the transport answers
\* or the client aborts the active block only
Busy == identNext = 1 \/ active_iocb[1] = 1

NextOrder ==
    \/ \E p \in Priorities, fail \in BOOLEAN :
            Busy /\ Submit(MaxOrderIOCBs, 1, p, fail)
    \/ \E b \in Blocks : active_iocb[1] = b /\ Complete(b, "r1")
    \/ \E b \in Blocks, err \in Errs : active_iocb[1] = b /\ Abort(b, err)
    \/ \E fail \in BOOLEAN : Trigger(1, fail)
    \/ \E fail \in BOOLEAN : WaitTrigger(1, fail)

SpecOrder == InitQ /\ [][NextOrder]_vars

\* the SieveClientController: no SieveQueue exists before the first request
InitSieve ==
    /\ InitBlocks
    /\ InitCtrls
    /\ ctlNext = 1
    /\ wait_time = [c \in Ctrls |-> 0]
    /\ last = NoOp

NextSieve ==
    \/ \E a \in Addrs, fail \in BOOLEAN : SieveSubmit(0, a, fail)
    \/ \E a \in Addrs, pdu \in {"r1"} \cup Errs : Confirmation(a, pdu)
    \/ \E b \in Blocks : Live(b) /\ Complete(b, "r2")
    \/ \E b \in Blocks, err \in Errs : Live(b) /\ Abort(b, err)
    \/ \E c \in Ctrls, fail \in BOOLEAN : Trigger(c, fail)

SpecSieve == InitSieve /\ [][NextSieve]_vars

\* two threads inside SieveClientController.process_io, and the reactor that
\* delivers confirmations and runs deferred calls
NextRace ==
    \/ \E t \in Threads, a \in Addrs : ThreadGet(t, a)
    \/ \E t \in Threads : ThreadNew(t)
    \/ \E t \in Threads, fail \in BOOLEAN : ThreadRequest(t, fail)
    \/ \E a \in Addrs, pdu \in {"r1"} \cup Errs : Confirmation(a, pdu)
    \/ \E c \in Ctrls, fail \in BOOLEAN : Trigger(c, fail)

SpecRace == InitSieve /\ [][NextRace]_vars

\* a group (block 1), its members unbound or under the IOQController, and
\* the callbacks of the application on the group
NextGroup ==
    \/ GroupInit
    \/ identNext > 1 /\ Construct(MaxGroupIOCBs, 0, "None")
    \/ \E b \in Blocks : GroupAdd(1, b)
    \/ \E fail \in BOOLEAN, b \in Blocks : RequestIO(1, b, fail)
    \/ Made(1) /\ AddCallback(1)
    \/ \E b \in Blocks : b # 1 /\ Live(b) /\ Complete(b, "r1")
    \/ \E b \in Blocks, err \in Errs : b # 1 /\ Live(b) /\ Abort(b, err)
    \/ \E err \in Errs : Made(1) /\ CallsBelowCap(1) /\ Abort(1, err)
    \/ \E fail \in BOOLEAN : Trigger(1, fail)
    \/ \E fail \in BOOLEAN : WaitTrigger(1, fail)

SpecGroup == Init /\ [][NextGroup]_vars

\* the IOQController under load, with IOQController.abort and the log on
NextCtlAbort ==
    \/ \E p \in Priorities, fail \in BOOLEAN : Submit(MaxBlocks, 1, p, fail)
    \/ \E b \in Blocks : Live(b) /\ Complete(b, "r1")
    \/ \E b \in Blocks, err \in Errs : Live(b) /\ Abort(b, err)
    \/ \E fail \in BOOLEAN : Trigger(1, fail)
    \/ \E fail \in BOOLEAN : WaitTrigger(1, fail)
    \/ \E err \in Errs : QAbort(1, err)
    \/ \E err \in Errs : QAbortResume(1, err)

SpecCtlAbort == Init /\ [][NextCtlAbort]_vars

\* chains: upstream blocks of the application, chain blocks on them that
\* stay unbound or go to the IOQController, and other requests that keep
\* the controller busy
Chains == {ch \in Blocks : Made(ch) /\ cls[ch] \in ChainClasses}

InitChain ==
    /\ InitBlocks
    /\ InitCtrls
    /\ ctlNext = 2
    /\ wait_time = [c \in Ctrls |-> 0]
    /\ last = LogOff

NextChain ==
    \/ Construct(MaxChainIOCBs, 0, "None")
    \/ Submit(MaxChainIOCBs, 1, 0, FALSE)
    \/ \E iocb \in Blocks, c \in ChainClasses, fail \in BOOLEAN :
            ChainInit(MaxChainIOCBs, iocb, c, fail)
    \/ \E iocb \in Blocks, c \in ChainClasses, fail \in BOOLEAN, failio \in BOOLEAN :
            ChainSubmit(MaxChainIOCBs, iocb, c, fail, 1, failio)
    \/ \E b \in Blocks : Fresh(b) /\ AddCallback(b)
    \/ \E b \in Blocks : Live(b) /\ Complete(b, "r1")
    \/ \E b \in Chains : ~Live(b) /\ Complete(b, "r2")
    \/ \E b \in Blocks, err \in Errs : Live(b) /\ Abort(b, err)
    \/ \E b \in Chains, err \in Errs : ~Live(b) /\ Abort(b, err)
    \/ \E fail \in BOOLEAN : Trigger(1, fail)

SpecChain == InitChain /\ [][NextChain]_vars

\* late registration: callbacks added at any time to plain blocks and to
\* chain blocks, which stay unbound, are submitted to the IOQController or
\* are built with an encode that raises
InitLate ==
    /\ InitBlocks
    /\ InitCtrls
    /\ ctlNext = 2
    /\ wait_time = [c \in Ctrls |-> 0]
    /\ last = NoOp

NextLate ==
    \/ Construct(MaxChainIOCBs, 0, "None")
    \/ Submit(MaxChainIOCBs, 1, 0, FALSE)
    \/ \E iocb \in Blocks, fail \in BOOLEAN :
            ChainSubmit(MaxChainIOCBs, iocb, "IOChain", fail, 1, FALSE)
    \/ \E b \in Blocks : AddCallback(b)
    \/ \E b \in Blocks : Live(b) /\ Complete(b, "r1")
    \/ \E b \in Blocks, err \in Errs : Live(b) /\ Abort(b, err)
    \/ \E fail \in BOOLEAN : Trigger(1, fail)

SpecLate == InitLate /\ [][NextLate]_vars

\* an IOQueue used on its own: iocb = IOCB(_priority=p), made PENDING by the
\* caller or not, and queue.put(iocb)
QueuePut(p, pending) ==
    /\ identNext <= MaxOrderIOCBs
    /\ LET b == identNext
           s1 == IOCB_init(Cur, p, "None")
           s2 == IF pending THEN [s1 EXCEPT !.ioState[b] = PENDING] ELSE s1
       IN  Commit(IOQueue_put(s2, 1, b), Op("put", NoRef, "None"))

\* queue.get() returns when the queue is not empty
QueueGet ==
    /\ notempty[1]
    /\ Commit(IOQueue_get(Cur, 1), Op("get", NoRef, "None"))

\* queue.remove(iocb), of a block that is in the queue or not
QueueRemove(b) ==
    /\ Made(b)
    /\ Commit(IOQueue_remove(Cur, 1, b), Op("remove", NoRef, "None"))

NextQueue ==
    \/ \E p \in Priorities, pending \in BOOLEAN : QueuePut(p, pending)
    \/ QueueGet
    \/ \E b \in Blocks : QueueRemove(b)

SpecQueue == InitLate /\ [][NextQueue]_vars

\* queue.abort(err)
QueueAbort(err) ==
    /\ Commit(IOQueue_abort(Cur, 1, err), Op("queue_abort", NoRef, "None"))

\* an IOQueue whose blocks the application may abort one by one, and all
\* at once
NextQueueAbort ==
    \/ \E p \in Priorities : QueuePut(p, TRUE)
    \/ QueueGet
    \/ \E b \in Blocks, err \in Errs : Live(b) /\ Abort(b, err)
    \/ \E err \in QueueErrs : QueueAbort(err)

SpecQueueAbort == InitLate /\ [][NextQueueAbort]_vars

\* IOCB() on several threads at once, one block per thread
BuildCall(t) ==
    /\ frames[t].pc = "out"
    /\ Commit(IOCB_init_call(Cur, t), Op("init_call", NoRef, "None"))

BuildAcquire(t) ==
    /\ frames[t].pc = "called"
    /\ ~identLock_locked(Cur)
    /\ Commit(IOCB_init_acquire(Cur, t), Op("init_acquire", NoRef, "None"))

BuildRead(t) ==
    /\ frames[t].pc = "locked"
    /\ Commit(IOCB_init_read(Cur, t), Op("init_read", NoRef, "None"))

BuildIncr(t) ==
    /\ frames[t].pc = "read"
    /\ Commit(IOCB_init_incr(Cur, t), Op("init_incr", NoRef, "None"))

BuildRelease(t) ==
    /\ frames[t].pc = "incr"
    /\ Commit(IOCB_init_release(Cur, t), Op("init_release", NoRef, "None"))

BuildFields(t) ==
    /\ frames[t].pc = "unlocked"
    /\ Commit(IOCB_init_fields(Cur, t), Op("init", frames[t].iocb, "None"))

InitIdent ==
    /\ InitBlocks
    /\ InitCtrls
    /\ ctlNext = 1
    /\ wait_time = [c \in Ctrls |-> 0]
    /\ last = LogOff

NextIdent ==
    \/ \E t \in Builders : BuildCall(t)
    \/ \E t \in Builders : BuildAcquire(t)
    \/ \E t \in Builders : BuildRead(t)
    \/ \E t \in Builders : BuildIncr(t)
    \/ \E t \in Builders : BuildRelease(t)
    \/ \E t \in Builders : BuildFields(t)

SpecIdent == InitIdent /\ [][NextIdent]_vars

\* the active slot of one IOQController: requests of two priorities, and
\* completions that reach any block the controller knows, queued, active or
\* finished
NextSlot ==
    \/ \E p \in {0, MaxPriority}, fail \in BOOLEAN : Submit(MaxSlotIOCBs, 1, p, fail)
    \/ \E b \in Blocks : Complete(b, "r1")
    \/ \E b \in Blocks, err \in Errs : Live(b) /\ Abort(b, err)
    \/ \E fail \in BOOLEAN : Trigger(1, fail)
    \/ \E fail \in BOOLEAN : WaitTrigger(1, fail)

SpecSlot == Init /\ [][NextSlot]_vars

\* the reactor and the timer at work on one IOQController: the steps of
\* Trigger and WaitTrigger, and the transport or the client ending the
\* active block, each with the state after the call computed once
RunTrigger ==
    /\ deferredFns[1] > 0
    /\ \E fail \in BOOLEAN :
         \E r \in {IOQController_trigger([Cur EXCEPT !.deferredFns[1] = @ - 1], 1, fail)} :
            Commit(r, Op("_trigger", NoRef, "None"))

RunWaitTrigger ==
    /\ waitTasks[1] > 0
    /\ \E fail \in BOOLEAN :
         \E r \in {IOQController_wait_trigger([Cur EXCEPT !.waitTasks[1] = @ - 1], 1, fail)} :
            Commit(r, Op("_wait_trigger", NoRef, "None"))

EndActive ==
    /\ active_iocb[1] # NoRef
    /\ \E r \in {IOCB_complete(Cur, active_iocb[1], "r1"), abort(Cur, active_iocb[1], "e1")} :
            Commit(r, Op("end", active_iocb[1], "None"))

NextFair ==
    \/ \E p \in {0, MaxPriority}, fail \in BOOLEAN : Submit(MaxFairIOCBs, 1, p, fail)
    \/ \E b \in Blocks, err \in Errs : Live(b) /\ Abort(b, err)
    \/ EndActive
    \/ RunTrigger
    \/ RunWaitTrigger

\* the reactor runs every deferred call, the timer every installed task, and
\* every active block is answered or aborted in the end
SpecFair ==
    /\ InitQ /\ [][NextFair]_vars
    /\ WF_vars(RunTrigger)
    /\ WF_vars(RunWaitTrigger)
    /\ WF_vars(EndActive)

\* the transport delivers the response of the device to request r, which
\* request_fn sent to the address of r at some time and which has no
\* response yet
Response(r, pdu) ==
    /\ \E i \in 1..Len(sent) : sent[i] = r
    /\ ioError[r] # "TransportError"
    /\ ioResponse[r] = "None"
    /\ Commit(SieveClientController_confirmation(Cur, pduDestination[r], pdu),
              Op("response", r, pduDestination[r]))

\* the SieveClientController with answers that may arrive late: after the
\* client gave up on the request and the next one went out
NextAnswer ==
    \/ \E a \in Addrs, fail \in BOOLEAN : SieveSubmit(0, a, fail)
    \/ \E r \in Blocks : Response(r, "r1")
    \/ \E b \in Blocks, err \in Errs : Live(b) /\ Abort(b, err)
    \/ \E c \in Ctrls, fail \in BOOLEAN : Trigger(c, fail)

SpecAnswer == InitSieve /\ [][NextAnswer]_vars

\* ------------------------------------------------------------------ claims

\* the block this step handed to request_fn
Dispatched(b) == Len(sent') = Len(sent) + 1 /\ sent'[Len(sent')] = b

\* b is served before q: a lower priority value, or the same and submitted
\* earlier (Submit builds and submits, so the ioID is the submission order);
\* the priorities are read after the step, which may have built b
Before(b, q) ==
    \/ ioPriority'[b] < ioPriority'[q]
    \/ ioPriority'[b] = ioPriority'[q] /\ b < q

SameBlock(b) ==
    /\ ioState'[b] = ioState[b]
    /\ ioResponse'[b] = ioResponse[b]
    /\ ioError'[b] = ioError[b]
    /\ ioComplete'[b] = ioComplete[b]
    /\ calls'[b] = calls[b]

SameController(c) ==
    /\ state'[c] = state[c]
    /\ active_iocb'[c] = active_iocb[c]
    /\ queue'[c] = queue[c]
    /\ deferredFns'[c] = deferredFns[c]
    /\ waitTasks'[c] = waitTasks[c]

\* C1: at most one block bound to an IOQController is ACTIVE, and a block that
\* is ACTIVE under a controller is that controller's active_iocb.
C1_SingleFlight ==
    \A c \in Ctrls :
        LET act == {b \in Blocks : ioController[b] = c /\ ioState[b] = ACTIVE}
        IN  /\ Cardinality(act) <= 1
            /\ \A b \in act : active_iocb[c] = b

\* C1 witness: a block is active while another waits, an earlier block has
\* completed and its deferred _trigger has not run yet.
C1_Witness ==
    /\ active_iocb[1] # NoRef
    /\ ioState[active_iocb[1]] = ACTIVE
    /\ Len(queue[1]) >= 1
    /\ deferredFns[1] > 0
    /\ \E b \in Blocks : ioController[b] = 1 /\ ioState[b] = COMPLETED

\* C2: a callback is invoked exactly once; here: after add_callback returns,
\* no callback of the block has been invoked more than once.
C2_CallbacksOnce ==
    [][\A b \in Blocks :
        (last'.op = "add_callback" /\ last'.blk = b)
            => \A k \in DOMAIN calls'[b] : calls'[b][k] <= 1]_vars

\* C3: complete on a block that is already COMPLETED or ABORTED changes
\* neither its state nor its result, invokes no callback and raises nothing.
C3_CompleteTerminalNoOp ==
    [][\A b \in Blocks :
        (last'.op = "complete" /\ last'.blk = b /\ ioState[b] \in Terminal)
            => (SameBlock(b) /\ raised' = "None")]_vars

C5_PriorityOrder ==
    [][\A b \in Blocks :
        Dispatched(b) => \A q \in Waiting(Cur, 1) \ {b} : Before(b, q)]_vars

\* b is served before q, read in the current state
Precedes(b, q) ==
    \/ ioPriority[b] < ioPriority[q]
    \/ ioPriority[b] = ioPriority[q] /\ b < q

\* C6: blocks submitted while the first block is active are dispatched in
\* ascending priority value and, within a priority, in submission order:
\* every block dispatched after the first goes before every block dispatched
\* later and before every block still waiting.
C6_QueueOrder ==
    \A i \in 2..Len(sent) :
        /\ \A j \in (i + 1)..Len(sent) : Precedes(sent[i], sent[j])
        /\ \A q \in Waiting(Cur, 1) : Precedes(sent[i], q)

\* C6 witness: blocks 2, 3, 4 with priorities 2, 1, 1 were submitted behind
\* block 1 and were dispatched in the order 3, 4, 2.
C6_Witness ==
    /\ sent = <<1, 3, 4, 2>>
    /\ ioPriority[2] = 2
    /\ ioPriority[3] = 1
    /\ ioPriority[4] = 1

\* C7: a block completed by the transport right after set_timeout was called
\* on it is COMPLETED with the transport's result and its timeout task is
\* cancelled.
C7_TimeoutRace ==
    [][\A b \in Blocks :
        (/\ last.op = "set_timeout" /\ last.blk = b /\ last.pre \notin Terminal
         /\ last'.op = "complete" /\ last'.blk = b /\ ioState'[b] = COMPLETED)
            => (ioResponse'[b] \in Msgs /\ ioTimeout'[b] = "suspended")]_vars

\* C8: set_timeout on a block that is not terminal returns with the deferred
\* abort installed.
C8_SetTimeoutSchedules ==
    (last.op = "set_timeout" /\ last.pre \notin Terminal)
        => (raised = "None" /\ ioTimeout[last.blk] = "installed")

\* the blocks addressed to a that are ACTIVE
ActiveFor(a) == {b \in Blocks : Made(b) /\ pduDestination[b] = a /\ ioState[b] = ACTIVE}

\* C9: for every destination address at most one block is ACTIVE.
C9_PerKeySerial == \A a \in Addrs : Cardinality(ActiveFor(a)) <= 1

\* C9 witness: the SieveQueue of an address was forgotten and built again,
\* and the address has an active block and a waiting one.
C9_Witness ==
    \E a \in Addrs :
        /\ queues[a] # NoRef
        /\ \E c \in Ctrls : c < ctlNext /\ c # queues[a] /\ address[c] = a
        /\ ActiveFor(a) # {}
        /\ queue[queues[a]] # <<>>

\* C10: a request to an address with no active block is handed to request_fn
\* in the same call, whatever is active or queued for the other address, and
\* a confirmation from an address changes no block and no controller of
\* another address.
C10_CrossKey ==
    [][/\ \A b \in Blocks :
            (last'.op = "sieve_request_io" /\ last'.blk = b /\ ActiveFor(last'.addr) = {})
                => Dispatched(b)
       /\ last'.op = "confirmation"
            => /\ \A b \in Blocks : pduDestination[b] # last'.addr => SameBlock(b)
               /\ \A c \in Ctrls : address[c] # last'.addr => SameController(c)
               /\ \A a \in Addrs : a # last'.addr => queues'[a] = queues[a]]_vars

\* C10 witness: a request to B went out at once while A had an active block
\* and a block waiting behind it.
C10_Witness ==
    /\ last.op = "sieve_request_io"
    /\ last.addr = "B"
    /\ ioState[last.blk] = ACTIVE
    /\ ActiveFor("A") # {}
    /\ \E b \in Blocks : pduDestination[b] = "A" /\ ioState[b] = PENDING

\* C11: a SieveQueue with an empty queue and no active block is not in the
\* registry: every entry of queues has a block queued or active.
C11_KeyEviction ==
    \A a \in Addrs :
        queues[a] # NoRef
            => (queue[queues[a]] # <<>> \/ active_iocb[queues[a]] # NoRef)

\* C12: one SieveQueue per address is in use at a time: every block that is
\* queued or active under a SieveQueue is under the one the registry names
\* for its address.
C12_RegistryAtomic ==
    \A b \in Blocks :
        (Made(b) /\ ioState[b] \in {PENDING, ACTIVE} /\ ioController[b] \in Ctrls)
            => queues[pduDestination[b]] = ioController[b]

\* the members of group g
Members(g) == {ioMembers[g][i] : i \in 1..Len(ioMembers[g])}

\* the groups built so far
Groups == {g \in Blocks : Made(g) /\ cls[g] = "IOGroup"}

\* C13: a group is COMPLETED exactly when the completion signal of every
\* member is set (so a group with no members is COMPLETED), and a group with
\* a member that is not terminal is PENDING.
C13_GroupCompleted ==
    \A g \in Groups :
        /\ ioState[g] = COMPLETED <=> \A m \in Members(g) : ioComplete[m]
        /\ (\E m \in Members(g) : ioState[m] \notin Terminal) => ioState[g] = PENDING

\* this step is group.abort on group g, some of whose members were pending
GroupAbortStep(g) ==
    /\ g \in Groups
    /\ last'.op = "abort" /\ last'.blk = g
    /\ \E m \in Members(g) : ioState[m] \notin Terminal

\* C14: IOGroup.abort on a group with pending members leaves every member
\* that was not terminal ABORTED with the error and its completion signal
\* set, and every member that was terminal as it was.
C14_GroupAbortCascade ==
    [][\A g \in Blocks :
        GroupAbortStep(g)
            => \A m \in Members(g) :
                IF ioState[m] \in Terminal
                THEN SameBlock(m)
                ELSE /\ ioState'[m] = ABORTED
                     /\ ioError'[m] \in Errs
                     /\ ioComplete'[m]]_vars

\* C15: during IOGroup.abort on a group with pending members, every callback
\* registered on the group is invoked exactly once.
C15_GroupAbortOnce ==
    [][\A g \in Blocks :
        GroupAbortStep(g)
            => \A k \in DOMAIN calls[g] : calls'[g][k] = calls[g][k] + 1]_vars

\* C16: when a member of a group completes or aborts, the callbacks of the
\* group are invoked once each if that makes every member terminal, and not
\* at all while a member is still not terminal.
C16_GroupJoin ==
    [][\A g \in Groups, m \in Blocks :
        (/\ m \in Members(g) /\ ioState[m] \notin Terminal
         /\ last'.op \in {"complete", "abort"} /\ last'.blk = m)
            => \A k \in DOMAIN calls[g] :
                calls'[g][k] = calls[g][k] +
                    (IF \A n \in Members(g) : ioState'[n] \in Terminal THEN 1 ELSE 0)]_vars

\* the callbacks of block b were each invoked once more in this step
TriggeredOnce(b) == \A k \in DOMAIN calls[b] : calls'[b][k] = calls[b][k] + 1

\* C17: when the chain_callback of a chain whose decode raises runs, the
\* upstream block ends ABORTED with the exception of decode as ioError and is
\* triggered, whatever the state and result of the chain block.
C17_DecodeFailure ==
    [][\A ch \in Chains :
        (/\ cls[ch] = "IOChainDecodeRaises"
         /\ ioChain[ch] # NoRef
         /\ calls'[ch][1] = calls[ch][1] + 1)
            => /\ ioState'[ioChain[ch]] = ABORTED
               /\ ioError'[ioChain[ch]] = "DecodeError"
               /\ ioComplete'[ioChain[ch]]
               /\ TriggeredOnce(ioChain[ch])]_vars

\* C17 witness: the chain block is COMPLETED with a response, and the
\* upstream block is ABORTED with the exception of decode and its callback
\* was invoked once.
C17_Witness ==
    \E ch \in Chains, iocb \in Blocks :
        /\ cls[ch] = "IOChainDecodeRaises"
        /\ ioState[ch] = COMPLETED /\ ioResponse[ch] = "r1"
        /\ ioController[ch] = 1
        /\ ioState[iocb] = ABORTED /\ ioError[iocb] = "DecodeError"
        /\ ioResponse[iocb] = "None"
        /\ calls[iocb] = <<1>>

\* C18: when encode raises in the constructor of a chain, the upstream block
\* is ABORTED with that exception and triggered and the chain block is
\* terminal when the constructor returns, and a chain block whose encode
\* raised is never PENDING or ACTIVE afterwards.
C18_EncodeFailure ==
    [][\A ch \in Blocks :
        (/\ ch < identNext'
         /\ cls'[ch] = "IOChain"
         /\ ioError'[ch] = "EncodeError")
            => /\ ioState'[ch] \in Terminal
               /\ ch = identNext
                    => \E iocb \in Blocks :
                        /\ Fresh(iocb)
                        /\ ioState'[iocb] = ABORTED
                        /\ ioError'[iocb] = "EncodeError"
                        /\ ioComplete'[iocb]
                        /\ TriggeredOnce(iocb)]_vars

\* C19: with the decode of IOChainMixIn, a chain block that becomes COMPLETED
\* or ABORTED while it is chained hands its response or its error to the
\* upstream block, which becomes terminal and is triggered in the same
\* step; and no callback of a block of the application is ever invoked
\* twice.
C19_ChainPropagation ==
    [][/\ \A ch \in Chains :
            (/\ cls[ch] = "IOChain"
             /\ ioChain[ch] # NoRef
             /\ ioState[ch] \notin Terminal
             /\ ioState'[ch] \in Terminal)
                => LET iocb == ioChain[ch]
                   IN  /\ ioState'[iocb] = ioState'[ch]
                       /\ ioResponse'[iocb] = ioResponse'[ch]
                       /\ ioError'[iocb] = ioError'[ch]
                       /\ ioComplete'[iocb]
                       /\ TriggeredOnce(iocb)
       /\ \A b \in Blocks :
            cls'[b] = "IOCB" => \A k \in DOMAIN calls'[b] : calls'[b][k] <= 1]_vars

\* the blocks in the queue of controller c
Queued(c) == {queue[c][i][2] : i \in 1..Len(queue[c])}

\* block b was aborted with an error of the caller and triggered
AbortedNow(b) == ioState'[b] = ABORTED /\ ioError'[b] \in Errs /\ ioComplete'[b]

\* C20: IOQController.abort on a controller that is not idle returns with
\* every block of its queue ABORTED with the error and triggered, the queue
\* empty, and the active block, if there is one, aborted with the error.
C20_ControllerAbort ==
    [][(last'.op = "ctl_abort" /\ state[1] # CTRL_IDLE)
        => /\ \A b \in Queued(1) : AbortedNow(b)
           /\ queue'[1] = <<>>
           /\ active_iocb[1] # NoRef => AbortedNow(active_iocb[1])
           /\ getWaiters'[1] = getWaiters[1]]_vars

\* this step dispatches block b: request_io on the idle controller, or
\* _trigger on the idle controller with b at the head of the queue
DispatchStep(b) ==
    /\ state[1] = CTRL_IDLE
    /\ \/ last'.op = "request_io" /\ last'.blk = b
       \/ last'.op = "_trigger" /\ queue[1] # <<>> /\ queue[1][1][2] = b

\* the exception process_io raised in this step: of request_fn when the
\* block was handed to it, of active_io otherwise
ProcessError == IF Len(sent') > Len(sent) THEN "TransportError" ELSE "RuntimeError"

\* C21: when process_io raises while a block is dispatched by request_io or
\* by _trigger (the block is not ACTIVE afterwards), nothing is raised to the
\* caller, the block is ABORTED with the exception of process_io as ioError
\* and its completion signal set, and the controller is idle with no active
\* block.
C21_ErrorsContained ==
    [][\A b \in Blocks :
        (DispatchStep(b) /\ ioState'[b] # ACTIVE)
            => /\ raised' = "None"
               /\ ioState'[b] = ABORTED
               /\ ioError'[b] = ProcessError
               /\ ioComplete'[b]
               /\ state'[1] = CTRL_IDLE
               /\ active_iocb'[1] = NoRef]_vars

\* C22: on a controller with wait_time > 0, after the active block has
\* terminated through complete_io or abort_io no block is dispatched until
\* _wait_trigger has run; here: the step that follows the termination of the
\* active block hands no block to request_fn unless it is _wait_trigger.
C22_QuiescentDelay ==
    [][(/\ wait_time[1] # 0
        /\ last.op \in {"complete", "abort"}
        /\ last.pre = ACTIVE
        /\ ioController[last.blk] = 1
        /\ ioState[last.blk] \in Terminal
        /\ last'.op # "_wait_trigger")
            => sent' = sent]_vars

\* C23: of every block at most one of ioResponse and ioError is set: a
\* COMPLETED block has no ioError, an ABORTED block has no ioResponse, and a
\* block that is not terminal has neither.
C23_ResultExclusive ==
    \A b \in Blocks :
        Made(b) =>
            /\ ioState[b] = COMPLETED => ioError[b] = "None"
            /\ ioState[b] = ABORTED => ioResponse[b] = "None"
            /\ ioState[b] \notin Terminal => (ioResponse[b] = "None" /\ ioError[b] = "None")

\* C24: the completion signal of a block, once set, is never cleared.
C24_SignalSingleFire ==
    [][\A b \in Blocks : (Made(b) /\ ioComplete[b]) => ioComplete'[b]]_vars

\* C25: add_callback on a block whose completion signal is set returns with
\* the new callback invoked, once.
C25_LateRegistration ==
    [][\A b \in Blocks :
        (last'.op = "add_callback" /\ last'.blk = b /\ ioComplete[b])
            => /\ raised' = "None"
               /\ calls'[b][Len(calls'[b])] = 1]_vars

\* C26: the callbacks an operation invokes on a block are all the callbacks
\* registered on it, in the order of their registration, each with the block,
\* and the completion signal is set when each of them runs.
C26_CallbackOrder ==
    LET f == last.fired
    IN  f # <<>> =>
            /\ Len(f) = Len(ioCallback[f[1].blk])
            /\ \A i \in 1..Len(f) : f[i] = [blk |-> f[1].blk, k |-> i, set |-> TRUE]

\* C26 witness: complete invoked the two callbacks of the block, the first
\* registered first.
C26_Witness ==
    /\ last.op = "complete"
    /\ Len(ioCallback[last.blk]) = MaxCallbacks
    /\ Len(last.fired) = MaxCallbacks
    /\ last.fired[1].k = 1
    /\ last.fired[MaxCallbacks].k = MaxCallbacks

\* the threads whose block has its ioID
Identified == {t \in Builders : frames[t].pc \in {"read", "incr", "unlocked", "done"}}

\* C27: no two blocks built by different threads have the same ioID, and the
\* ioID of a block is greater than the ioID of every block whose construction
\* had returned when its own was called.
C27_UniqueIdent ==
    \A t \in Identified :
        /\ \A u \in Identified : u # t => frames[u].iocb # frames[t].iocb
        /\ \A u \in frames[t].before : frames[u].iocb < frames[t].iocb

\* C27 witness: three constructions have returned; the first two overlapped,
\* the second thread taking the lower ioID, and the third was called after
\* both had returned.
C27_Witness ==
    /\ \A t \in Builders : frames[t].pc = "done"
    /\ frames[1].iocb = 2 /\ frames[2].iocb = 1
    /\ frames[1].before = {} /\ frames[2].before = {}
    /\ frames[3].before = {1, 2}

\* C28: abort of a block that is PENDING in the queue of the controller
\* leaves it ABORTED with the error and signalled, out of the queue, and the
\* controller as it was but for the queue; and no block that is ABORTED is
\* handed to process_io by _trigger.
C28_AbortQueued ==
    [][/\ \A b \in Blocks :
            (last'.op = "abort" /\ last'.blk = b /\ ioState[b] = PENDING /\ b \in Queued(1))
                => /\ raised' = "None"
                   /\ AbortedNow(b)
                   /\ \A i \in 1..Len(queue'[1]) : queue'[1][i][2] # b
                   /\ ioQueue'[b] = NoRef
                   /\ state'[1] = state[1]
                   /\ active_iocb'[1] = active_iocb[1]
       /\ \A b \in Blocks :
            (DispatchStep(b) /\ last'.op = "_trigger") => ioState[b] # ABORTED]_vars

\* the entries of the queue are in ascending priority, and within a priority
\* in the order they were put (QueuePut builds the block it puts, so the
\* ioID is the put order)
Ordered(q) ==
    \A i \in 1..Len(q), j \in 1..Len(q) :
        i < j => (q[i][1] < q[j][1] \/ (q[i][1] = q[j][1] /\ q[i][2] < q[j][2]))

\* C29: after every put, get and remove the queue is in ascending priority
\* with the blocks of a priority in put order, and get takes the first entry
\* off the queue and clears the ioQueue of its block.
C29_QueueInvariant ==
    [][/\ Ordered(queue'[1])
       /\ \A i \in 1..Len(queue'[1]) : queue'[1][i][1] = ioPriority'[queue'[1][i][2]]
       /\ last'.op = "get"
            => /\ queue'[1] = Tail(queue[1])
               /\ ioQueue'[queue[1][1][2]] = NoRef
               /\ raised' = "None"]_vars

\* C29 witness: the queue holds two blocks of one priority in put order,
\* after get has returned a block and remove has taken another out.
C29_Witness ==
    /\ Len(queue[1]) = 2
    /\ queue[1][1][1] = queue[1][2][1]
    /\ queue[1][1][2] < queue[1][2][2]
    /\ \E g \in Blocks : Made(g) /\ ioState[g] = PENDING /\ ioQueue[g] = NoRef
    /\ \E r \in Blocks : Made(r) /\ ioQueue[r] = 1 /\ r \notin Queued(1)

C31_CompletionMismatch ==
    [][\A b \in Blocks :
        (/\ last'.op = "complete" /\ last'.blk = b
         /\ ioController[b] \in Ctrls
         /\ active_iocb[ioController[b]] # b)
        => /\ raised' = "RuntimeError"
           /\ \A x \in Blocks : SameBlock(x)
           /\ SameController(ioController[b])
           /\ sent' = sent]_vars

\* a completion for a block that waits in the queue behind the active block
\* was refused
C31_Witness ==
    /\ last.op = "complete"
    /\ raised = "RuntimeError"
    /\ ioQueue[last.blk] = 1 /\ ioState[last.blk] = PENDING
    /\ active_iocb[1] \notin {NoRef, last.blk}
    /\ ioState[active_iocb[1]] = ACTIVE

\* the step took the active block b out of the slot of controller 1
Freed(b) == active_iocb[1] = b /\ b # NoRef /\ active_iocb'[1] # b

\* C32: the complete or abort call that frees the active slot takes no block
\* from the queue and hands none to request_fn, it schedules one deferred
\* _trigger or one _wait_trigger task instead; a queued block leaves the queue
\* and reaches request_fn only in a _trigger or _wait_trigger step, one block
\* per step, also when process_io fails.
C32_DeferredDispatch ==
    [][/\ last'.op \in {"complete", "abort"}
          => /\ sent' = sent
             /\ queue' = queue
             /\ Freed(active_iocb[1])
                  => deferredFns'[1] + waitTasks'[1] = deferredFns[1] + waitTasks[1] + 1
       /\ \A b \in Blocks : ioQueue[b] = 1 /\ (Dispatched(b) \/ ioQueue'[b] # 1)
             => last'.op \in {"_trigger", "_wait_trigger"}
       /\ Len(sent') <= Len(sent) + 1
       /\ Len(queue'[1]) + 1 >= Len(queue[1])]_vars

\* a _trigger step dispatched a block from the queue after an earlier block
\* had been dispatched and had ended
C32_Witness ==
    /\ last.op = "_trigger"
    /\ Len(sent) >= 2
    /\ ioState[sent[1]] \in Terminal
    /\ active_iocb[1] = sent[Len(sent)]
    /\ ioState[sent[Len(sent)]] = ACTIVE
    /\ last.pre = IDLE

\* C33: a confirmation whose source address has a SieveQueue in the registry
\* with an active block ends exactly that block, COMPLETED with the response
\* or ABORTED with the exception, and frees the slot; every other block stays
\* as it was.  A confirmation from an address with no registry entry, or whose
\* SieveQueue has no active block, changes no block, no controller and no
\* registry entry.
C33_ResponseRouting ==
    [][last'.op = "confirmation" =>
        LET c == queues[last'.addr]
        IN  IF c = NoRef \/ active_iocb[c] = NoRef
            THEN /\ \A x \in Blocks : SameBlock(x)
                 /\ \A k \in Ctrls : SameController(k)
                 /\ queues' = queues
                 /\ raised' = "None"
            ELSE LET b == active_iocb[c]
                 IN  /\ \/ /\ ioState'[b] = COMPLETED
                           /\ ioResponse'[b] \in Msgs
                           /\ ioError'[b] = ioError[b]
                        \/ /\ ioState'[b] = ABORTED
                           /\ ioError'[b] \in Errs
                           /\ ioResponse'[b] = ioResponse[b]
                     /\ ioComplete'[b]
                     /\ active_iocb'[c] = NoRef
                     /\ \A x \in Blocks : x # b => SameBlock(x)]_vars

\* the last operation was a confirmation from an address whose SieveQueue
\* has no active block and a block waiting; a block of that address holds a
\* response that only a confirmation delivers, and the other address has an
\* active block
C33_Witness ==
    \E a \in Addrs :
        /\ last.op = "confirmation" /\ last.addr = a
        /\ queues[a] # NoRef
        /\ active_iocb[queues[a]] = NoRef
        /\ queue[queues[a]] # <<>>
        /\ \E b \in Blocks : /\ Made(b) /\ pduDestination[b] = a
                             /\ ioState[b] = COMPLETED /\ ioResponse[b] = "r1"
        /\ \E o \in Addrs : o # a /\ ActiveFor(o) # {}

C35_AbortTerminates ==
    [][last'.op = "ctl_abort" => getWaiters'[1] = getWaiters[1]]_vars

\* C36: every block whose ioState is COMPLETED or ABORTED has its completion
\* event set, so no thread stays blocked in wait() on a block that has ended.
C36_WaitersReleased ==
    \A b \in Blocks : (Made(b) /\ ioState[b] \in Terminal) => ioComplete[b]

\* C37: the answer to the request of block r ends no block but r and is
\* recorded as the result of no block but r: a confirmation that answers r
\* leaves the ioState, ioResponse and ioError of every other block as they
\* were.
C37_ResponseCorrelation ==
    [][\A b \in Blocks :
        (last'.op = "response" /\ last'.blk # b)
            => /\ ioState'[b] = ioState[b]
               /\ ioResponse'[b] = ioResponse[b]
               /\ ioError'[b] = ioError[b]]_vars

\* C38: IOGroup.abort(err) on a group with a member that is not terminal
\* leaves the group ABORTED with ioError = err.
C38_GroupAbortOutcome ==
    [][\A g \in Blocks :
        GroupAbortStep(g) => (ioState'[g] = ABORTED /\ ioError'[g] \in Errs)]_vars

\* C39: abort(err) on an upstream block that is chained to an IOChain block
\* which is not terminal leaves the chain block ABORTED with err, and the
\* upstream block ABORTED with err, unbound from the chain (no ioController,
\* the chain's ioChain cleared), its completion event set and each of its
\* callbacks invoked once.
C39_UpstreamAbort ==
    [][\A b \in Blocks :
        (/\ last'.op = "abort" /\ last'.blk = b
         /\ ioController[b] \in ChainCtls
         /\ ioChain[ChainOf(ioController[b])] = b
         /\ cls[ChainOf(ioController[b])] = "IOChain"
         /\ ioState[ChainOf(ioController[b])] \notin Terminal)
        => LET ch == ChainOf(ioController[b])
           IN  /\ ioState'[ch] = ABORTED /\ ioError'[ch] \in Errs
               /\ ioState'[b] = ABORTED /\ ioError'[b] \in Errs
               /\ ioController'[b] = NoRef
               /\ ioChain'[ch] = NoRef
               /\ ioComplete'[b]
               /\ TriggeredOnce(b)]_vars

====
